---- MODULE Spec2Model ----
(***************************************************************************)
(* Model of report-api's ReportService (report_service.py): the routing    *)
(* done by _finalize_pdf, the Gotenberg client calls (generate_pdf,        *)
(* generate_single_footer_pdf) and the multi-pass page-number flow         *)
(* (_generate_pdf_with_page_numbers, _generate_footer_pdfs,                *)
(* _overlay_footer_pdfs_on_main_pdf, _overlay_page_content).               *)
(*                                                                         *)
(* One behaviour is one call of _finalize_pdf.  Everything outside the     *)
(* process (Gotenberg, pikepdf, the page counter, the chunking service,    *)
(* the template loader) answers nondeterministically: it succeeds or it    *)
(* throws.                                                                 *)
(***************************************************************************)
EXTENDS Naturals, Sequences, FiniteSets

VARIABLES
    template_name,          \* argument of _finalize_pdf: None or a str
    html_out,               \* argument of _finalize_pdf: the rendered main HTML
    generate_page_number,   \* argument of _finalize_pdf: bool
    heap,                   \* the dict objects: the caller's template_args and page_args
    args0,                  \* history: the caller's template_args when the call started
    pc,                     \* position in the code
    route,                  \* history: the branch _finalize_pdf took
    calls,                  \* history: the requests.post calls, in order
    chunk_calls,            \* history: the create_chunk_report calls, in order
    footer_calls,           \* history: the generate_single_footer_pdf calls, in order
    first_pass_pdf,         \* _generate_pdf_with_page_numbers: first_pass_pdf
    total_pages,            \* _generate_pdf_with_page_numbers: total_pages
    footer_pdfs,            \* _generate_footer_pdfs: footer_pdfs
    i,                      \* loop index of the running for loop
    main_pdf_open,          \* the `with pikepdf.Pdf.open(main)` handle is open
    footer_pdf_open,        \* the pages whose `with pikepdf.Pdf.open(footer)` handle is open
    result_pdf,             \* _overlay_footer_pdfs_on_main_pdf: result_pdf.pages
    thrown,                 \* history: what threw in the overlay pass, and on which page
    log,                    \* current_app.logger records, in order
    result,                 \* what _finalize_pdf returned
    raised,                 \* the exception that left _finalize_pdf
    footer_html,            \* _finalize_pdf: footer_html, the argument of generate_pdf
    run,                    \* which call of _finalize_pdf this is, for the same request
    first,                  \* history: what the first of two calls did
    asked,                  \* history: what the collaborators were asked and answered
    recipients,             \* GCNotify: self.notification.recipients
    recipient_list,         \* GCNotify.send: recipients.split(",")
    r,                      \* GCNotify.send: how many recipients the loop has handled
    response_list,          \* GCNotify.send: response_list
    send_attempts,          \* history: the send_email_notification calls, in order
    send_log,               \* GCNotify.send: logger.error records, in order
    send_pc                 \* GCNotify.send: position in the code

vars == <<template_name, html_out, generate_page_number, heap, args0, pc, route,
          calls, chunk_calls, footer_calls, first_pass_pdf, total_pages,
          footer_pdfs, i, main_pdf_open, footer_pdf_open, result_pdf,
          thrown, log, result, raised, footer_html, run, first, asked,
          recipients, recipient_list, r, response_list, send_attempts,
          send_log, send_pc>>

\* the state of GCNotify.send
notify_vars == <<recipients, recipient_list, r, response_list, send_attempts,
                 send_log, send_pc>>

\* the bookkeeping of a repeated call
twice_vars == <<run, first>>

(***************************************************************************)
(* Bounds of the model.                                                    *)
(***************************************************************************)
MaxPages == 3

\* the longest recipients string, in fragments
MaxRecipientsLen == 4

(***************************************************************************)
(* Python values.  None is the empty tuple and a present value v is <<v>>. *)
(* A str is a tuple of fragments, so that `in` is a real substring test.   *)
(* A dict is a function from its keys.                                     *)
(***************************************************************************)
None == <<>>
Some(v) == <<v>>

EmptyStr == <<>>
EmptyDict == [k \in {} |-> 0]

\* d[k] = v on a dict
SetItem(d, k, v) == [j \in (DOMAIN d) \cup {k} |-> IF j = k THEN v ELSE d[j]]

\* d.get(k): None when the key is missing
Get(d, k) == IF k \in DOMAIN d THEN Some(d[k]) ELSE None

\* bool(x) of an optional list value: None and [] are falsy
Bool(opt) == opt # None /\ opt[1] # <<>>

\* (x or default)
OrElse(opt, default) == IF opt = None \/ opt[1] = <<>> THEN default ELSE opt[1]

\* needle in s, for a str s made of fragments
Contains(s, needle) == \E j \in 1..Len(s) : s[j] = needle

(***************************************************************************)
(* The requests the model draws from.                                      *)
(***************************************************************************)
TemplateNames ==
    { None,
      Some(EmptyStr),
      Some(<<"invoice">>),
      Some(<<"statement_report">>),
      Some(<<"monthly_", "statement_report", "_v2">>) }

TemplateArgs ==
    { None,
      Some(EmptyDict),
      Some([account |-> "a1"]),
      Some([account |-> "a1", groupedInvoices |-> <<>>]),
      Some([account |-> "a1", groupedInvoices |-> <<"g1", "g2">>]),
      Some([account |-> "a1", current_page |-> 9, total_pages |-> 9]) }

HtmlOut == <<"html", "Report">>

\* line 124: empty_html
empty_html == <<"<!DOCTYPE html>">>

(***************************************************************************)
(* PDF documents.  A document is the pages it holds and who wrote it; a    *)
(* page is its own content and the overlays merged onto it.                *)
(***************************************************************************)
Page(content) == [content |-> content, overlays |-> <<>>]

\* the part of a multipart request with the given file name, None when missing
Part(files, name) ==
    IF \E j \in 1..Len(files) : files[j].name = name
    THEN Some(files[CHOOSE j \in 1..Len(files) : files[j].name = name].content)
    ELSE None

\* what Gotenberg's /forms/chromium/convert/html answers with status 2xx: n
\* pages of index.html, each with the footer part the form data names
GotenbergPdf(files, data, n) ==
    [producer |-> "gotenberg",
     pages |-> [p \in 1..n |->
                  Page([body |-> Part(files, "index.html"),
                        footer |-> IF "footer" \in DOMAIN data
                                   THEN Part(files, data["footer"]) ELSE None,
                        page |-> p])]]

\* the body of a non-2xx answer: not a PDF
ErrorBody == [producer |-> "gotenberg_error", pages |-> <<>>]

\* what create_chunk_report answers
ChunkPdf == [producer |-> "chunk_report_service", pages |-> <<>>]

\* lines 188-190: result_pdf.save(output_buffer); output_buffer.getvalue()
SavedPdf(pages) == [producer |-> "pikepdf", pages |-> pages]

(***************************************************************************)
(* The Gotenberg client: lines 88-109 and 123-139.                         *)
(***************************************************************************)
\* line 106 and line 136: timeout=120
timeout == 120

\* how a requests.post call can end
Outcomes == {"ok", "http_error", "timeout"}

File(name, content) == [name |-> name, content |-> content, type |-> "text/html"]

\* GeneratePdfRequest adding the footer part on the flag alone
GeneratePdfRequest_FlagOnly(html, page_number, footer) ==
    IF page_number
    THEN [files |-> <<File("index.html", html), File("footer.html", footer)>>,
          data |-> [footer |-> "footer.html"],
          timeout |-> timeout]
    ELSE [files |-> <<File("index.html", html)>>,
          data |-> EmptyDict,
          timeout |-> timeout]

\* GeneratePdfRequest with `data` a dict shared by every call of the process:
\* a footer instruction set once stays
GeneratePdfRequest_SharedData(html, page_number, footer) ==
    LET files == IF page_number /\ footer \notin {None, Some(EmptyStr)}
                 THEN <<File("index.html", html), File("footer.html", footer[1])>>
                 ELSE <<File("index.html", html)>>
        left == \/ \E k \in 1..Len(calls) : "footer" \in DOMAIN calls[k].data
                \/ /\ first # None
                   /\ \E k \in 1..Len(first[1].calls) :
                         "footer" \in DOMAIN first[1].calls[k].data
    IN [files |-> files,
        data |-> IF Len(files) = 2 \/ left
                 THEN [footer |-> "footer.html"] ELSE EmptyDict,
        timeout |-> timeout]

\* GeneratePdfRequest adding the footer part whenever a footer is passed
GeneratePdfRequest_FooterOnly(html, page_number, footer) ==
    IF footer # None
    THEN [files |-> <<File("index.html", html), File("footer.html", footer[1])>>,
          data |-> [footer |-> "footer.html"],
          timeout |-> timeout]
    ELSE [files |-> <<File("index.html", html)>>,
          data |-> EmptyDict,
          timeout |-> timeout]

\* lines 95-100: the files and data generate_pdf posts
GeneratePdfRequest(html, page_number, footer) ==
    IF page_number /\ footer # None /\ footer # Some(EmptyStr)
    THEN [files |-> <<File("index.html", html), File("footer.html", footer[1])>>,
          data |-> [footer |-> "footer.html"],
          timeout |-> timeout]
    ELSE [files |-> <<File("index.html", html)>>,
          data |-> EmptyDict,
          timeout |-> timeout]

\* lines 126-130: the files and data generate_single_footer_pdf posts
FooterPdfRequest(footer) ==
    [files |-> <<File("index.html", empty_html), File("footer.html", footer)>>,
     data |-> [footer |-> "footer.html"],
     timeout |-> timeout]

\* raise_for_status left out
raise_for_status_never(outcome) == FALSE

\* lines 108 and 138: resp.raise_for_status() throws on a non-2xx answer
raise_for_status(outcome) == outcome = "http_error"

\* lines 102-108 and 132-138: the call throws (requests.post on a timeout,
\* raise_for_status on an error status)
PostRaises(outcome) == outcome = "timeout" \/ raise_for_status(outcome)

PostException(outcome) == IF outcome = "timeout" THEN "Timeout" ELSE "HTTPError"

\* lines 109 and 139: resp.content
Content(req, outcome, n) ==
    IF outcome = "ok" THEN GotenbergPdf(req.files, req.data, n) ELSE ErrorBody

\* a collaborator (requests.post to Gotenberg, create_chunk_report,
\* get_pdf_page_count, pikepdf) is given `input` and answers; each of them
\* answers the same input the same way, also in a second call of _finalize_pdf
Ask(kind, input, outcome, pages) ==
    LET a == [outcome |-> outcome, pages |-> pages]
    IN /\ run = 2 =>
             \A k \in 1..Len(first[1].asked) :
                (first[1].asked[k].q.kind = kind /\ first[1].asked[k].q.input = input)
                   => first[1].asked[k].a = a
       /\ asked' = Append(asked, [q |-> [kind |-> kind, input |-> input], a |-> a])

\* the answer of a collaborator that either does its work or throws
Told(ok) == IF ok THEN "ok" ELSE "error"

\* lines 102-107 and 132-137: requests.post(endpoint, files, data); the page
\* count of the answer matters only when a document comes back
Post(req, outcome, n) ==
    Ask("requests.post", [files |-> req.files, data |-> req.data], outcome,
        IF outcome = "ok" THEN n ELSE 0)

\* the record of one requests.post call
Call(fn, req, outcome) ==
    [fn |-> fn, files |-> req.files, data |-> req.data,
     timeout |-> req.timeout, outcome |-> outcome]

(***************************************************************************)
(* _finalize_pdf: lines 61-86.                                             *)
(***************************************************************************)
\* line 69
is_statement(name) == Contains(OrElse(name, EmptyStr), "statement_report")

\* line 70
has_grouped_invoices(args) == Bool(Get(OrElse(args, EmptyDict), "groupedInvoices"))

\* line 71: footer_html = None, never assigned again
footer_html_of_finalize == None

\* Route with the page-number test made before the grouped-invoices test
Route_PageNumbersFirst(name, args, page_number) ==
    IF is_statement(name) /\ page_number THEN "multipass"
    ELSE IF is_statement(name) /\ has_grouped_invoices(args) THEN "chunk"
    ELSE "direct"

\* lines 72-86: the branch taken
Route(name, args, page_number) ==
    IF is_statement(name) /\ has_grouped_invoices(args) THEN "chunk"
    ELSE IF is_statement(name) /\ page_number THEN "multipass"
    ELSE "direct"

\* no call of _finalize_pdf came before this one
FirstRun == run = 1 /\ first = None

\* no GCNotify.send is under way
NoNotification ==
    /\ recipients = EmptyStr
    /\ recipient_list = <<>>
    /\ r = 0
    /\ response_list = <<>>
    /\ send_attempts = <<>>
    /\ send_log = <<>>
    /\ send_pc = "idle"

\* nothing of the flow has run yet
NothingDone ==
    /\ calls = <<>>
    /\ chunk_calls = <<>>
    /\ footer_calls = <<>>
    /\ first_pass_pdf = None
    /\ total_pages = None
    /\ footer_pdfs = <<>>
    /\ i = 0
    /\ main_pdf_open = FALSE
    /\ footer_pdf_open = {}
    /\ result_pdf = <<>>
    /\ thrown = {}
    /\ log = <<>>
    /\ result = None
    /\ raised = None
    /\ asked = <<>>

\* lines 61-71: _finalize_pdf(template_name, template_args, html_out,
\* generate_page_number) is entered
Init ==
    /\ template_name \in TemplateNames
    /\ html_out = HtmlOut
    /\ generate_page_number \in BOOLEAN
    /\ \E a \in TemplateArgs :
          /\ heap = [template_args |-> a, page_args |-> None]
          /\ args0 = a
    /\ pc = "_finalize_pdf"
    /\ route = "none"
    /\ footer_html = None
    /\ NothingDone
    /\ FirstRun
    /\ NoNotification

\* lines 69-86: the routing decision
FinalizePdf ==
    /\ pc = "_finalize_pdf"
    /\ footer_html' = footer_html_of_finalize
    /\ route' = Route(template_name, heap.template_args, generate_page_number)
    /\ pc' = CASE route' = "chunk" -> "create_chunk_report"
               [] route' = "multipass" -> "first_pass"
               [] OTHER -> "generate_pdf"
    /\ UNCHANGED <<notify_vars, twice_vars, asked,
                   template_name, html_out, generate_page_number, heap, args0,
                   calls, chunk_calls, footer_calls, first_pass_pdf, total_pages,
                   footer_pdfs, i, main_pdf_open, footer_pdf_open, result_pdf,
                   thrown, log, result, raised>>

\* lines 73-77: return ChunkReportService.create_chunk_report(...)
CreateChunkReport ==
    /\ pc = "create_chunk_report"
    /\ chunk_calls' = Append(chunk_calls,
                             [template_name |-> template_name,
                              template_args |-> heap.template_args,
                              generate_page_number |-> generate_page_number])
    /\ \E ok \in BOOLEAN :
          /\ Ask("create_chunk_report",
                 <<template_name, heap.template_args, generate_page_number>>,
                 Told(ok), 0)
          /\ IF ok
             THEN /\ result' = Some(ChunkPdf)
                  /\ pc' = "done"
                  /\ UNCHANGED raised
             ELSE /\ raised' = Some("ChunkReportError")
                  /\ pc' = "raised"
                  /\ UNCHANGED result
    /\ UNCHANGED <<notify_vars, twice_vars, footer_html,
                   template_name, html_out, generate_page_number, heap, args0,
                   route, calls, footer_calls, first_pass_pdf, total_pages,
                   footer_pdfs, i, main_pdf_open, footer_pdf_open, result_pdf,
                   thrown, log>>

\* line 86: return ReportService.generate_pdf(html_out, generate_page_number,
\* footer_html=footer_html)
GeneratePdf ==
    /\ pc = "generate_pdf"
    /\ \E outcome \in Outcomes, n \in 0..MaxPages :
          LET req == GeneratePdfRequest(html_out, generate_page_number, footer_html)
          IN /\ Post(req, outcome, n)
             /\ calls' = Append(calls, Call("generate_pdf", req, outcome))
             /\ IF PostRaises(outcome)
                THEN /\ raised' = Some(PostException(outcome))
                     /\ pc' = "raised"
                     /\ UNCHANGED result
                ELSE /\ result' = Some(Content(req, outcome, n))
                     /\ pc' = "done"
                     /\ UNCHANGED raised
    /\ UNCHANGED <<notify_vars, twice_vars, footer_html,
                   template_name, html_out, generate_page_number, heap, args0,
                   route, chunk_calls, footer_calls, first_pass_pdf, total_pages,
                   footer_pdfs, i, main_pdf_open, footer_pdf_open, result_pdf,
                   thrown, log>>

(***************************************************************************)
(* _generate_pdf_with_page_numbers and _generate_footer_pdfs:              *)
(* lines 141-162; generate_single_footer_pdf: lines 111-139.               *)
(***************************************************************************)
request_vars == <<template_name, html_out, generate_page_number, args0>>

overlay_vars == <<main_pdf_open, footer_pdf_open, result_pdf, thrown, log>>

\* line 145: generate_pdf(html_out, False), footer_html left at its default
first_pass_page_number == FALSE

\* api.services.page_info.get_pdf_page_count (line 28, called at line 146)
get_pdf_page_count(pdf) == Len(pdf.pages)

\* footer_rounds with one round too many: range(total_pages + 1)
footer_rounds_plus_one(total) == total + 1

\* line 159: range(total_pages), the number of rounds of the loop
footer_rounds(total) == total

\* footer_current_page without the + 1
footer_current_page_from_zero(j) == j

\* line 160: the current_page passed in round j (j counts from 0)
footer_current_page(j) == j + 1

\* page_args bound to the caller's dict itself: no copy()
page_args_alias == "template_args"

\* line 117: template_args.copy() is a new dict object, bound to page_args
page_args_object == "page_args"

\* line 121: footer_template.render(page_args) for statement_footer.html,
\* which shows the two page numbers of its context
render_footer(page_args) ==
    <<"footer", Get(page_args, "current_page"), Get(page_args, "total_pages")>>

\* FooterLoopPc with `return footer_pdfs` inside the loop: the overlay pass
\* starts after the first footer
FooterLoopPc_ReturnInLoop(j, total) ==
    IF j = 0 /\ j < footer_rounds(total)
    THEN "generate_single_footer_pdf" ELSE "overlay_open"

\* where the flow goes when round j of the footer loop is due
FooterLoopPc(j, total) ==
    IF j < footer_rounds(total) THEN "generate_single_footer_pdf" ELSE "overlay_open"

\* line 145: first_pass_pdf = ReportService.generate_pdf(html_out, False)
FirstPass ==
    /\ pc = "first_pass"
    /\ \E outcome \in Outcomes, n \in 0..MaxPages :
          LET req == GeneratePdfRequest(html_out, first_pass_page_number, None)
          IN /\ Post(req, outcome, n)
             /\ calls' = Append(calls, Call("generate_pdf", req, outcome))
             /\ IF PostRaises(outcome)
                THEN /\ raised' = Some(PostException(outcome))
                     /\ pc' = "raised"
                     /\ UNCHANGED first_pass_pdf
                ELSE /\ first_pass_pdf' = Some(Content(req, outcome, n))
                     /\ pc' = "get_pdf_page_count"
                     /\ UNCHANGED raised
    /\ UNCHANGED <<notify_vars, twice_vars, footer_html, request_vars,
                   overlay_vars, heap, route, chunk_calls,
                   footer_calls, total_pages, footer_pdfs, i, result>>

\* line 146: total_pages = get_pdf_page_count(first_pass_pdf)
CountPages ==
    /\ pc = "get_pdf_page_count"
    /\ \E ok \in BOOLEAN :
          /\ Ask("get_pdf_page_count", first_pass_pdf, Told(ok), 0)
          /\ IF ok
             THEN /\ total_pages' = Some(get_pdf_page_count(first_pass_pdf[1]))
                  /\ pc' = "get_template"
                  /\ UNCHANGED raised
             ELSE /\ raised' = Some("PageCountError")
                  /\ pc' = "raised"
                  /\ UNCHANGED total_pages
    /\ UNCHANGED <<notify_vars, twice_vars, footer_html, request_vars,
                   overlay_vars, heap, route, calls, chunk_calls,
                   footer_calls, first_pass_pdf, footer_pdfs, i, result>>

\* lines 157-158: footer_template = ENV.get_template(...); footer_pdfs = [].
\* statement_footer.html ships in the service's own template folder
GetTemplate ==
    /\ pc = "get_template"
    /\ footer_pdfs' = <<>>
    /\ i' = 0
    /\ pc' = FooterLoopPc(0, total_pages[1])
    /\ UNCHANGED <<notify_vars, twice_vars, asked, footer_html, request_vars,
                   overlay_vars, heap, route, calls, chunk_calls,
                   footer_calls, first_pass_pdf, total_pages, result, raised>>

\* lines 160-161 with lines 112-139: one round of the footer loop
GenerateSingleFooterPdf ==
    /\ pc = "generate_single_footer_pdf"
    /\ LET current_page == footer_current_page(i)
           total == total_pages[1]
       IN IF heap.template_args = None
          THEN \* line 117: None has no copy()
               /\ footer_calls' = Append(footer_calls,
                                         [current_page |-> current_page,
                                          total_pages |-> total,
                                          page_args |-> None])
               /\ raised' = Some("AttributeError")
               /\ pc' = "raised"
               /\ UNCHANGED <<heap, calls, footer_pdfs, i, asked>>
          ELSE LET copied == [heap EXCEPT ![page_args_object] = heap.template_args]
                   heap2 == [copied EXCEPT ![page_args_object] =
                               Some(SetItem(SetItem(@[1], "current_page", current_page),
                                            "total_pages", total))]
                   page_args == heap2[page_args_object][1]
                   req == FooterPdfRequest(render_footer(page_args))
               IN /\ heap' = heap2
                  /\ footer_calls' = Append(footer_calls,
                                            [current_page |-> current_page,
                                             total_pages |-> total,
                                             page_args |-> Some(page_args)])
                  /\ \E outcome \in Outcomes :
                        /\ Post(req, outcome, 1)
                        /\ calls' = Append(calls,
                                           Call("generate_single_footer_pdf", req, outcome))
                        /\ IF PostRaises(outcome)
                           THEN /\ raised' = Some(PostException(outcome))
                                /\ pc' = "raised"
                                /\ UNCHANGED <<footer_pdfs, i>>
                           ELSE /\ footer_pdfs' = Append(footer_pdfs, Content(req, outcome, 1))
                                /\ i' = i + 1
                                /\ pc' = FooterLoopPc(i + 1, total)
                                /\ UNCHANGED raised
    /\ UNCHANGED <<notify_vars, twice_vars, footer_html, request_vars,
                   overlay_vars, route, chunk_calls, first_pass_pdf,
                   total_pages, result>>

(***************************************************************************)
(* _overlay_footer_pdfs_on_main_pdf: lines 164-195, and                    *)
(* _overlay_page_content: lines 197-207.                                   *)
(***************************************************************************)
\* line 152: the main_pdf_bytes argument
main_pdf_bytes == first_pass_pdf[1]

\* line 168 and line 172: the pages pikepdf reads from main_pdf_bytes
main_pdf_pages == main_pdf_bytes.pages

\* handler without the outer try block: nothing catches outside the page
handler_no_outer(site) ==
    CASE site = "add_overlay" -> "except_205"
      [] site = "footer_open" -> "except_184"
      [] OTHER -> "none"

\* handler without the inner try blocks: only line 192 catches
handler_outer_only(site) == "except_192"

\* the except clause that catches what is thrown at a place of the overlay
\* pass: line 205 around add_overlay, line 184 around the footer's with
\* block, line 192 around everything else
handler(site) ==
    CASE site = "add_overlay" -> "except_205"
      [] site = "footer_open" -> "except_184"
      [] OTHER -> "except_192"

\* fallback_result returning what was assembled so far
fallback_result_partial(main_bytes, pages) == SavedPdf(pages)

\* line 195: what the outer except clause returns
fallback_result(main_bytes, pages) == main_bytes

\* append_page putting the page in front
append_page_front(pages, main_page) == <<main_page>> \o pages

\* line 173: result_pdf.pages.append(main_page)
append_page(pages, main_page) == Append(pages, main_page)

\* line 202: base_page.add_overlay(overlay_page), on the last page of result_pdf
add_overlay(pages, overlay_page) ==
    [pages EXCEPT ![Len(pages)].overlays = Append(@, overlay_page.content)]

\* line 201: hasattr(base_page, 'add_overlay'), true of a pikepdf.Page
has_add_overlay == TRUE

Warning(where, page) == [level |-> "warning", where |-> where, page |-> page]

Error(where) == [level |-> "error", where |-> where, page |-> 0]

\* OverlayLoopPc looping over zip(main_pdf.pages, footer_pdfs)
OverlayLoopPc_Zip(j) ==
    IF j < Len(main_pdf_pages) /\ j < Len(footer_pdfs) THEN "append" ELSE "save"

\* line 172: where the flow goes when main page j (from 0) is due
OverlayLoopPc(j) == IF j < Len(main_pdf_pages) THEN "append" ELSE "save"

\* close_footer for a footer opened without a with block: nothing closes it
close_footer_never(handles, page) == handles

\* line 179: the with block closes the footer handle of the page it was
\* opened for, however the block is left
close_footer(handles, page) == handles \ {page}

\* the for loop goes on with the next main page; a footer handle is closed
\* by its with block
NextPage(pages, th, lg) ==
    /\ result_pdf' = pages
    /\ thrown' = th
    /\ log' = lg
    /\ footer_pdf_open' = close_footer(footer_pdf_open, i + 1)
    /\ i' = i + 1
    /\ pc' = OverlayLoopPc(i + 1)
    /\ UNCHANGED <<main_pdf_open, result, raised>>

\* an exception thrown at `site` while main page `page` is handled (page 0:
\* outside the loop)
Throw(site, page) ==
    LET h == handler(site)
        th == thrown \cup {[site |-> site, page |-> page]}
    IN IF h = "except_205"
       THEN \* lines 205-207: logged inside _overlay_page_content, which returns
            NextPage(result_pdf, th,
                     Append(log, Warning("_overlay_page_content", page)))
       ELSE IF h = "except_184"
       THEN \* lines 184-185: logged, the loop goes on
            NextPage(result_pdf, th,
                     Append(log, Warning("_overlay_footer_pdfs_on_main_pdf", page)))
       ELSE IF h = "except_192"
       THEN \* lines 192-195: logged, the main bytes are returned; the with
            \* blocks close their handles on the way out
            /\ log' = Append(log, Error("_overlay_footer_pdfs_on_main_pdf"))
            /\ result' = Some(fallback_result(main_pdf_bytes, result_pdf))
            /\ pc' = "done"
            /\ main_pdf_open' = FALSE
            /\ footer_pdf_open' = close_footer(footer_pdf_open, page)
            /\ thrown' = th
            /\ UNCHANGED <<i, result_pdf, raised>>
       ELSE \* no except clause: the exception leaves _finalize_pdf
            /\ raised' = Some("PdfError")
            /\ pc' = "raised"
            /\ main_pdf_open' = FALSE
            /\ footer_pdf_open' = close_footer(footer_pdf_open, page)
            /\ thrown' = th
            /\ UNCHANGED <<i, result_pdf, log, result>>

\* lines 168-169: open the main document, start the result document
OverlayOpen ==
    /\ pc = "overlay_open"
    /\ \E ok \in BOOLEAN :
          /\ Ask("pikepdf", <<"main_open", 0, first_pass_pdf, footer_pdfs>>, Told(ok), 0)
          /\ IF ok
             THEN /\ main_pdf_open' = TRUE
                  /\ result_pdf' = <<>>
                  /\ i' = 0
                  /\ pc' = OverlayLoopPc(0)
                  /\ UNCHANGED <<footer_pdf_open, thrown, log, result, raised>>
             ELSE Throw("main_open", 0)
    /\ UNCHANGED <<notify_vars, twice_vars, footer_html, request_vars,
                   heap, route, calls, chunk_calls, footer_calls,
                   first_pass_pdf, total_pages, footer_pdfs>>

\* lines 172-177: copy main page i into the result document
OverlayAppend ==
    /\ pc = "append"
    /\ \E ok \in BOOLEAN :
          /\ Ask("pikepdf", <<"append", i + 1, first_pass_pdf, footer_pdfs>>, Told(ok), 0)
          /\ IF ok
             THEN LET pages == append_page(result_pdf, main_pdf_pages[i + 1])
                  IN IF i < Len(footer_pdfs)
                     THEN /\ result_pdf' = pages
                          /\ pc' = "footer_open"
                          /\ UNCHANGED <<i, main_pdf_open, footer_pdf_open,
                                         thrown, log, result, raised>>
                     ELSE NextPage(pages, thrown, log)
             ELSE Throw("append", i + 1)
    /\ UNCHANGED <<notify_vars, twice_vars, footer_html, request_vars,
                   heap, route, calls, chunk_calls, footer_calls,
                   first_pass_pdf, total_pages, footer_pdfs>>

\* line 179: open footer_pdfs[i]
OverlayFooterOpen ==
    /\ pc = "footer_open"
    /\ \E ok \in BOOLEAN :
          /\ Ask("pikepdf", <<"footer_open", i + 1, first_pass_pdf, footer_pdfs>>, Told(ok), 0)
          /\ IF ok
             THEN /\ footer_pdf_open' = footer_pdf_open \cup {i + 1}
                  /\ pc' = "overlay_page_content"
                  /\ UNCHANGED <<i, main_pdf_open, result_pdf, thrown,
                                 log, result, raised>>
             ELSE Throw("footer_open", i + 1)
    /\ UNCHANGED <<notify_vars, twice_vars, footer_html, request_vars,
                   heap, route, calls, chunk_calls, footer_calls,
                   first_pass_pdf, total_pages, footer_pdfs>>

\* lines 180-183 with lines 198-207: merge the footer's first page onto the
\* page just copied
OverlayPageContent ==
    /\ pc = "overlay_page_content"
    /\ LET footer_pages == footer_pdfs[i + 1].pages
       IN IF Len(footer_pages) > 0 /\ has_add_overlay
          THEN \E ok \in BOOLEAN :
                  /\ Ask("pikepdf", <<"add_overlay", i + 1, first_pass_pdf, footer_pdfs>>,
                         Told(ok), 0)
                  /\ IF ok
                     THEN NextPage(add_overlay(result_pdf, footer_pages[1]),
                                   thrown, log)
                     ELSE Throw("add_overlay", i + 1)
          ELSE /\ NextPage(result_pdf, thrown, log)
               /\ UNCHANGED asked
    /\ UNCHANGED <<notify_vars, twice_vars, footer_html, request_vars,
                   heap, route, calls, chunk_calls, footer_calls,
                   first_pass_pdf, total_pages, footer_pdfs>>

\* lines 188-190: serialize the result document and return it
OverlaySave ==
    /\ pc = "save"
    /\ \E ok \in BOOLEAN :
          /\ Ask("pikepdf", <<"save", 0, first_pass_pdf, footer_pdfs>>, Told(ok), 0)
          /\ IF ok
             THEN /\ result' = Some(SavedPdf(result_pdf))
                  /\ pc' = "done"
                  /\ main_pdf_open' = FALSE
                  /\ UNCHANGED <<i, footer_pdf_open, result_pdf, thrown,
                                 log, raised>>
             ELSE Throw("save", 0)
    /\ UNCHANGED <<notify_vars, twice_vars, footer_html, request_vars,
                   heap, route, calls, chunk_calls, footer_calls,
                   first_pass_pdf, total_pages, footer_pdfs>>

Next ==
    \/ FinalizePdf
    \/ CreateChunkReport
    \/ GeneratePdf
    \/ FirstPass
    \/ CountPages
    \/ GetTemplate
    \/ GenerateSingleFooterPdf
    \/ OverlayOpen
    \/ OverlayAppend
    \/ OverlayFooterOpen
    \/ OverlayPageContent
    \/ OverlaySave

Spec == Init /\ [][Next]_vars

(***************************************************************************)
(* The static methods called on their own.                                 *)
(***************************************************************************)
\* the footer_html a caller of generate_pdf passes
FooterHtmls == {None, Some(EmptyStr), Some(<<"footer">>)}

\* lines 88-89: generate_pdf(html_out, generate_page_number, footer_html)
\* is entered by a caller other than _finalize_pdf
InitGeneratePdf ==
    /\ template_name = None
    /\ html_out = HtmlOut
    /\ generate_page_number \in BOOLEAN
    /\ footer_html \in FooterHtmls
    /\ heap = [template_args |-> None, page_args |-> None]
    /\ args0 = None
    /\ pc = "generate_pdf"
    /\ route = "none"
    /\ NothingDone
    /\ FirstRun
    /\ NoNotification

\* a main document of m pages, as generate_pdf returns it
MainDoc(m) == Content(GeneratePdfRequest(HtmlOut, FALSE, None), "ok", m)

\* a footer document for page k with n pages
FooterDoc(k, n) ==
    Content(FooterPdfRequest(<<"footer", Some(k), None>>), "ok", n)

\* the footer lists a caller may pass: any length, each document with no
\* page or one page
FooterLists ==
    UNION {{[k \in 1..f |-> FooterDoc(k, n[k])] : n \in [1..f -> {0, 1}]} :
           f \in 0..MaxPages}

\* lines 164-166: _overlay_footer_pdfs_on_main_pdf(main_pdf_bytes,
\* footer_pdfs) is entered with any two arguments
InitOverlay ==
    /\ template_name = None
    /\ html_out = HtmlOut
    /\ generate_page_number = TRUE
    /\ footer_html = None
    /\ heap = [template_args |-> None, page_args |-> None]
    /\ args0 = None
    /\ pc = "overlay_open"
    /\ route = "none"
    /\ calls = <<>>
    /\ chunk_calls = <<>>
    /\ footer_calls = <<>>
    /\ \E m \in 0..MaxPages : first_pass_pdf = Some(MainDoc(m))
    /\ total_pages = None
    /\ footer_pdfs \in FooterLists
    /\ i = 0
    /\ main_pdf_open = FALSE
    /\ footer_pdf_open = {}
    /\ result_pdf = <<>>
    /\ thrown = {}
    /\ log = <<>>
    /\ result = None
    /\ raised = None
    /\ asked = <<>>
    /\ FirstRun
    /\ NoNotification

InitCalls == Init \/ InitGeneratePdf \/ InitOverlay

SpecCalls == InitCalls /\ [][Next]_vars

(***************************************************************************)
(* create_report_from_template: lines 232-249.                             *)
(***************************************************************************)
\* the template_args of a request with an ad-hoc template
AdHocArgs ==
    { None,
      Some(EmptyDict),
      Some([reportName |-> EmptyStr]),
      Some([reportName |-> <<"invoice">>]),
      Some([groupedInvoices |-> <<"g1", "g2">>]),
      Some([reportName |-> <<"invoice">>, groupedInvoices |-> <<"g1", "g2">>]),
      Some([reportName |-> <<"statement_report">>]),
      Some([reportName |-> <<"statement_report">>, groupedInvoices |-> <<>>]),
      Some([reportName |-> <<"my_", "statement_report">>,
            groupedInvoices |-> <<"g1", "g2">>]) }

\* report_name taking the statement report as the default
report_name_statement_default(args) ==
    LET d == OrElse(args, EmptyDict)
    IN IF "reportName" \in DOMAIN d
       THEN Some(d["reportName"]) ELSE Some(<<"statement_report">>)

\* line 243: report_name = (template_args or {}).get('reportName', '')
report_name(args) ==
    LET d == OrElse(args, EmptyDict)
    IN IF "reportName" \in DOMAIN d THEN Some(d["reportName"]) ELSE Some(EmptyStr)

\* lines 232-235: create_report_from_template(template_string,
\* template_args, generate_page_number) is entered
InitTemplate ==
    /\ template_name = None
    /\ html_out = EmptyStr
    /\ generate_page_number \in BOOLEAN
    /\ \E a \in AdHocArgs :
          /\ heap = [template_args |-> a, page_args |-> None]
          /\ args0 = a
    /\ pc = "create_report_from_template"
    /\ route = "none"
    /\ footer_html = None
    /\ NothingDone
    /\ FirstRun
    /\ NoNotification

\* lines 236-249: decode the template and render it in the sandbox (either
\* can throw), then call _finalize_pdf with the report name as template name
CreateReportFromTemplate ==
    /\ pc = "create_report_from_template"
    /\ \E ok \in BOOLEAN :
          /\ Ask("template_.render", heap.template_args, Told(ok), 0)
          /\ IF ok
             THEN /\ html_out' = HtmlOut
                  /\ template_name' = report_name(heap.template_args)
                  /\ pc' = "_finalize_pdf"
                  /\ UNCHANGED raised
             ELSE /\ raised' = Some("TemplateError")
                  /\ pc' = "raised"
                  /\ UNCHANGED <<template_name, html_out>>
    /\ UNCHANGED <<notify_vars, twice_vars, footer_html, generate_page_number,
                   args0, heap, route, calls, chunk_calls, footer_calls,
                   first_pass_pdf, total_pages, footer_pdfs, i, overlay_vars,
                   result>>

NextTemplate == CreateReportFromTemplate \/ Next

SpecTemplate == InitTemplate /\ [][NextTemplate]_vars

(***************************************************************************)
(* _finalize_pdf called twice with the same arguments, in one process.     *)
(***************************************************************************)
\* what a call of _finalize_pdf did
Done ==
    [calls |-> calls, chunk_calls |-> chunk_calls, footer_calls |-> footer_calls,
     log |-> log, result |-> result, raised |-> raised, asked |-> asked]

\* lines 61-71: the caller calls _finalize_pdf again with the same objects;
\* the locals are new, the heap is as the first call left it
Again ==
    /\ run = 1
    /\ pc \in {"done", "raised"}
    /\ first' = Some(Done)
    /\ run' = 2
    /\ pc' = "_finalize_pdf"
    /\ route' = "none"
    /\ footer_html' = None
    /\ calls' = <<>>
    /\ chunk_calls' = <<>>
    /\ footer_calls' = <<>>
    /\ first_pass_pdf' = None
    /\ total_pages' = None
    /\ footer_pdfs' = <<>>
    /\ i' = 0
    /\ main_pdf_open' = FALSE
    /\ footer_pdf_open' = {}
    /\ result_pdf' = <<>>
    /\ thrown' = {}
    /\ log' = <<>>
    /\ result' = None
    /\ raised' = None
    /\ asked' = <<>>
    /\ UNCHANGED <<notify_vars, request_vars, heap>>

NextTwice == Next \/ Again

SpecTwice == Init /\ [][NextTwice]_vars

(***************************************************************************)
(* GCNotify.send: gc_notify.py lines 44-95.                                *)
(***************************************************************************)
\* the state of ReportService, which GCNotify.send does not touch
report_vars ==
    <<template_name, html_out, generate_page_number, heap, args0, pc, route,
      calls, chunk_calls, footer_calls, first_pass_pdf, total_pages,
      footer_pdfs, i, main_pdf_open, footer_pdf_open, result_pdf, thrown, log,
      result, raised, footer_html, run, first, asked>>

\* the fragments of a recipients string: addresses and the comma
RecipientFragments == {"a@gov.bc.ca", "b@gov.bc.ca", ","}

\* self.notification.recipients: any string, the empty one included
RecipientStrings ==
    UNION {[1..n -> RecipientFragments] : n \in 0..MaxRecipientsLen}

RECURSIVE split(_, _)
\* line 79: s.split(sep); a str without sep, the empty one too, is one piece
split(s, sep) ==
    IF \E j \in 1..Len(s) : s[j] = sep
    THEN LET k == CHOOSE j \in 1..Len(s) :
                     s[j] = sep /\ \A h \in 1..(j - 1) : s[h] # sep
         IN <<SubSeq(s, 1, k - 1)>> \o split(SubSeq(s, k + 1, Len(s)), sep)
    ELSE <<s>>

\* how client.send_email_notification can end
SendOutcomes == {"ok", "HTTPError", "Exception"}

\* catches with `except HTTPError` alone
catches_http_error_only(exc) == exc = "HTTPError"

\* line 92: except (HTTPError, Exception)
catches(exc) == exc \in {"HTTPError", "Exception"}

NotificationSendResponse(response_id, recipient) ==
    [response_id |-> response_id, recipient |-> recipient]

\* line 44: send() is entered on a notification with any recipients string
InitNotify ==
    /\ template_name = None
    /\ html_out = EmptyStr
    /\ generate_page_number = FALSE
    /\ heap = [template_args |-> None, page_args |-> None]
    /\ args0 = None
    /\ pc = "idle"
    /\ route = "none"
    /\ footer_html = None
    /\ NothingDone
    /\ FirstRun
    /\ recipients \in RecipientStrings
    /\ recipient_list = <<>>
    /\ r = 0
    /\ response_list = <<>>
    /\ send_attempts = <<>>
    /\ send_log = <<>>
    /\ send_pc = "send"

\* where the flow goes when recipient j (from 0) of the list is due
SendLoopPc(j, list) == IF j < Len(list) THEN "send_email_notification" ELSE "return"

\* lines 46-79: build the client and the email content, start the loop
Send ==
    /\ send_pc = "send"
    /\ response_list' = <<>>
    /\ recipient_list' = split(recipients, ",")
    /\ r' = 0
    /\ send_pc' = SendLoopPc(0, recipient_list')
    /\ UNCHANGED <<report_vars, recipients, send_attempts, send_log>>

\* lines 80-93: one round of the loop
SendEmailNotification ==
    /\ send_pc = "send_email_notification"
    /\ \E outcome \in SendOutcomes :
          LET recipient == recipient_list[r + 1]
              response == [id |-> <<"id", Len(send_attempts) + 1>>]
          IN /\ send_attempts' = Append(send_attempts,
                                        [email_address |-> recipient,
                                         outcome |-> outcome,
                                         id |-> response.id])
             /\ IF outcome = "ok"
                THEN /\ response_list' =
                          Append(response_list,
                                 NotificationSendResponse(response.id, recipient))
                     /\ r' = r + 1
                     /\ send_pc' = SendLoopPc(r + 1, recipient_list)
                     /\ UNCHANGED send_log
                ELSE IF catches(outcome)
                THEN /\ send_log' = Append(send_log,
                                           [level |-> "error", recipient |-> recipient])
                     /\ r' = r + 1
                     /\ send_pc' = SendLoopPc(r + 1, recipient_list)
                     /\ UNCHANGED response_list
                ELSE /\ send_pc' = "raised"
                     /\ UNCHANGED <<r, response_list, send_log>>
    /\ UNCHANGED <<report_vars, recipients, recipient_list>>

\* line 95: return NotificationSendResponses(recipients=response_list)
SendReturn ==
    /\ send_pc = "return"
    /\ send_pc' = "returned"
    /\ UNCHANGED <<report_vars, recipients, recipient_list, r, response_list,
                   send_attempts, send_log>>

NextNotify == Send \/ SendEmailNotification \/ SendReturn

SpecNotify == InitNotify /\ [][NextNotify]_vars

(***************************************************************************)
(* The properties.                                                         *)
(***************************************************************************)
\* the request names a template of the statement-report family
StatementFamily ==
    template_name # None /\ Contains(template_name[1], "statement_report")

\* the caller's templateArgs is a mapping with a non-empty groupedInvoices list
GroupedInvoicesNonEmpty ==
    /\ args0 # None
    /\ "groupedInvoices" \in DOMAIN args0[1]
    /\ args0[1]["groupedInvoices"] # <<>>

\* _finalize_pdf has returned or thrown
Terminal == pc \in {"done", "raised"}

\* the requests.post calls made by generate_single_footer_pdf
FooterPosts == SelectSeq(calls, LAMBDA c : c.fn = "generate_single_footer_pdf")

\* every requests.post call so far was answered with a 2xx status
AllPostsOk == \A k \in 1..Len(calls) : calls[k].outcome = "ok"

\* C1: a statement-report request with a non-empty groupedInvoices list makes
\* no Renderer Client call (neither generate_pdf nor
\* generate_single_footer_pdf) whatever generatePageNumbers is, calls
\* create_chunk_report exactly once with the same template name, template
\* args and flag, and returns that call's bytes with nothing done to them.
C1_ChunkOnly ==
    (StatementFamily /\ GroupedInvoicesNonEmpty) =>
        /\ calls = <<>>
        /\ footer_calls = <<>>
        /\ first_pass_pdf = None
        /\ result_pdf = <<>>
        /\ Len(chunk_calls) <= 1
        /\ Terminal =>
              chunk_calls = <<[template_name |-> template_name,
                               template_args |-> args0,
                               generate_page_number |-> generate_page_number]>>
        /\ pc = "done" => result = Some(ChunkPdf)
        /\ pc # "_finalize_pdf" => route = "chunk"

C1_Witness ==
    /\ StatementFamily
    /\ GroupedInvoicesNonEmpty
    /\ generate_page_number
    /\ pc = "done"
    /\ Len(chunk_calls) = 1
    /\ result = Some(ChunkPdf)

\* C2: in the multi-pass flow with a first-pass page count N >= 1, a run
\* that returns has issued exactly N footer-generation calls, the k-th with
\* currentPage = k and totalPages = N, each posting a footer that shows k
\* and N, and returns a document of N pages; every footer call ever issued
\* has 1 <= currentPage <= totalPages; and a run given a templateArgs
\* mapping in which every renderer call succeeds does return.
C2_FooterPerPage ==
    route = "multipass" =>
        /\ \A k \in 1..Len(footer_calls) :
              /\ footer_calls[k].current_page = k
              /\ footer_calls[k].total_pages = total_pages[1]
              /\ 1 <= footer_calls[k].current_page
              /\ footer_calls[k].current_page <= footer_calls[k].total_pages
        /\ (pc = "done" /\ total_pages[1] >= 1) =>
              /\ Len(footer_calls) = total_pages[1]
              /\ Len(FooterPosts) = total_pages[1]
              /\ \A k \in 1..total_pages[1] :
                    Part(FooterPosts[k].files, "footer.html") =
                        Some(<<"footer", Some(k), Some(total_pages[1])>>)
              /\ Len(footer_pdfs) = total_pages[1]
              /\ Len(result[1].pages) = total_pages[1]
        /\ (Terminal /\ total_pages # None /\ AllPostsOk /\ args0 # None) =>
              pc = "done"

C2_Witness ==
    /\ route = "multipass"
    /\ pc = "done"
    /\ total_pages = Some(3)
    /\ Len(footer_calls) = 3
    /\ footer_calls[3].current_page = 3
    /\ Len(result[1].pages) = 3

\* the pages whose footer overlay failed: the footer document could not be
\* opened, or the page-level merge threw
FailedPages == {t.page : t \in {u \in thrown : u.site \in {"footer_open", "add_overlay"}}}

\* the overlay pass as a whole failed: the main document could not be opened,
\* a main page could not be copied, or the result could not be serialized
WholePassFailed == \E t \in thrown : t.site \in {"main_open", "append", "save"}

\* C3: per-page overlay failures are isolated.  With F the pages whose footer
\* could not be opened or whose merge threw, an overlay pass that no
\* whole-pass failure cut short returns N pages, page p being main page p;
\* the pages outside F carry exactly their own footer, the pages in F carry
\* no overlay; and a per-page failure never leaves the request failed.
C3_OverlayFailuresIsolated ==
    /\ (route = "multipass" /\ pc = "done" /\ ~WholePassFailed) =>
          /\ Len(result[1].pages) = Len(main_pdf_pages)
          /\ \A p \in 1..Len(main_pdf_pages) :
                /\ result[1].pages[p].content = main_pdf_pages[p].content
                /\ p \in FailedPages => result[1].pages[p].overlays = <<>>
                /\ p \notin FailedPages =>
                      result[1].pages[p].overlays = <<footer_pdfs[p].pages[1].content>>
    /\ FailedPages # {} => raised = None
    /\ pc = "raised" => thrown = {}
    /\ \A p \in FailedPages :
          \E k \in 1..Len(log) : log[k].level = "warning" /\ log[k].page = p

C3_Witness ==
    /\ route = "multipass"
    /\ pc = "done"
    /\ ~WholePassFailed
    /\ Len(main_pdf_pages) = 3
    /\ FailedPages = {2}
    /\ result[1].pages[2].overlays = <<>>
    /\ result[1].pages[3].overlays # <<>>

\* the first-pass render call failed (non-2xx answer or timeout)
FirstPassFailed ==
    route = "multipass" /\ Len(calls) >= 1 /\ calls[1].outcome # "ok"

\* the page count of the first-pass document failed
CountFailed == raised = Some("PageCountError")

\* the last footer-generation call failed: its context could not be built
\* or its render call failed
FooterGenerationFailed ==
    /\ Len(footer_calls) >= 1
    /\ \/ footer_calls[Len(footer_calls)].page_args = None
       \/ /\ calls[Len(calls)].fn = "generate_single_footer_pdf"
          /\ calls[Len(calls)].outcome # "ok"

\* the returned document is complete: every page of the first-pass document,
\* in order
CompletePdf ==
    /\ result # None
    /\ Len(result[1].pages) = Len(first_pass_pdf[1].pages)
    /\ \A p \in 1..Len(result[1].pages) :
          result[1].pages[p].content = first_pass_pdf[1].pages[p].content

\* C4 as first stated: a 0-page first-pass document is returned as it is,
\* the same bytes, and no footer-generation call is made.
C4_Original ==
    (route = "multipass" /\ pc = "done" /\ total_pages = Some(0)) =>
        /\ result = first_pass_pdf
        /\ footer_calls = <<>>

\* C4, amended: with a 0-page first-pass document the multi-pass flow makes
\* no footer-generation call and returns a 0-page document: the newly
\* assembled empty document that the overlay pass serializes, and the
\* first-pass bytes only when the overlay pass falls back.
C4_ZeroPages ==
    (route = "multipass" /\ total_pages = Some(0)) =>
        /\ footer_calls = <<>>
        /\ Len(calls) = 1
        /\ raised = None
        /\ pc = "done" =>
              /\ Len(result[1].pages) = 0
              /\ result = IF WholePassFailed THEN first_pass_pdf
                                             ELSE Some(SavedPdf(<<>>))

C4_Witness ==
    /\ route = "multipass"
    /\ total_pages = Some(0)
    /\ pc = "done"
    /\ ~WholePassFailed
    /\ result = Some(SavedPdf(<<>>))
    /\ result # first_pass_pdf

\* C5 as first stated, for a templateArgs mapping: a multi-pass request
\* whose first-pass render and page count succeeded returns a complete PDF,
\* also when the render of a footer, an overlay or the assembly fails.
C5_Original ==
    (route = "multipass" /\ Terminal /\ args0 # None
        /\ ~FirstPassFailed /\ ~CountFailed) =>
        pc = "done" /\ CompletePdf

\* C5, amended: a multi-pass request fails outright only when the first-pass
\* render, the page count or a footer-generation call (building its context
\* or its render call) failed; in every other run, also when overlays or the
\* final assembly fail, it returns a complete PDF.
C5_FailsOnlyBeforeOverlay ==
    route = "multipass" =>
        /\ pc = "raised" => FirstPassFailed \/ CountFailed \/ FooterGenerationFailed
        /\ (Terminal /\ ~FirstPassFailed /\ ~CountFailed /\ ~FooterGenerationFailed) =>
              pc = "done" /\ CompletePdf
        /\ thrown # {} => raised = None /\ pc # "raised"

C5_Witness ==
    /\ route = "multipass"
    /\ pc = "done"
    /\ \E t \in thrown : t.site = "save"
    /\ FailedPages # {}
    /\ Len(first_pass_pdf[1].pages) = 3
    /\ CompletePdf

\* C6: when the overlay pass as a whole fails (the main document cannot be
\* opened, a main page cannot be copied, the result cannot be serialized),
\* _overlay_footer_pdfs_on_main_pdf throws nothing and returns exactly the
\* main_pdf_bytes it was given, whatever was already overlaid.
C6_FallbackReturnsMainBytes ==
    WholePassFailed =>
        /\ pc = "done"
        /\ raised = None
        /\ result = first_pass_pdf
        /\ ~main_pdf_open
        /\ footer_pdf_open = {}

C6_Witness ==
    /\ \E t \in thrown : t.site = "save"
    /\ \E p \in 1..Len(result_pdf) : result_pdf[p].overlays # <<>>
    /\ result = first_pass_pdf
    /\ \A p \in 1..Len(result[1].pages) : result[1].pages[p].overlays = <<>>

\* C7: whichever way the multi-pass flow returns a document (assembled with
\* all, some or no overlays, or the fallback), it has as many pages as the
\* first-pass document and its page p is the first-pass document's page p.
C7_SamePages ==
    (route = "multipass" /\ pc = "done") =>
        /\ Len(result[1].pages) = Len(first_pass_pdf[1].pages)
        /\ \A p \in 1..Len(result[1].pages) :
              result[1].pages[p].content = first_pass_pdf[1].pages[p].content

C7_Witness ==
    /\ route = "multipass"
    /\ pc = "done"
    /\ thrown = {}
    /\ Len(result[1].pages) = 3
    /\ \A p \in 1..3 : result[1].pages[p].overlays # <<>>

C9_FirstPassFailureSurfaced ==
    FirstPassFailed =>
        /\ pc = "raised"
        /\ raised = Some(PostException(calls[1].outcome))
        /\ Len(calls) = 1
        /\ first_pass_pdf = None
        /\ total_pages = None
        /\ footer_calls = <<>>
        /\ footer_pdfs = <<>>
        /\ ~main_pdf_open
        /\ result_pdf = <<>>
        /\ thrown = {}
        /\ log = <<>>
        /\ result = None

C9_Witness ==
    /\ FirstPassFailed
    /\ calls[1].outcome = "timeout"
    /\ pc = "raised"
    /\ raised = Some("Timeout")

\* C10: footer generation never changes the caller's templateArgs: after any
\* number of generate_single_footer_pdf calls, failed ones included, it has
\* the keys and values it came with; and the context used for page k is the
\* caller's mapping with current_page = k and total_pages = N put over it.
C10_ArgsNotMutated ==
    /\ heap.template_args = args0
    /\ \A k \in 1..Len(footer_calls) :
          footer_calls[k].page_args # None =>
              LET page_args == footer_calls[k].page_args[1]
                  own == {"current_page", "total_pages"}
              IN /\ DOMAIN page_args = (DOMAIN args0[1]) \cup own
                 /\ page_args["current_page"] = k
                 /\ page_args["total_pages"] = total_pages[1]
                 /\ \A key \in (DOMAIN args0[1]) \ own :
                       page_args[key] = args0[1][key]

C10_Witness ==
    /\ Len(footer_calls) = 3
    /\ pc = "raised"
    /\ calls[Len(calls)].outcome = "http_error"
    /\ args0 # None
    /\ "current_page" \in DOMAIN args0[1]
    /\ args0[1]["current_page"] = 9
    /\ heap.template_args = args0

\* the request of a requests.post call carries index.html alone and no
\* footer instruction
OnePart(c) ==
    /\ Len(c.files) = 1
    /\ c.files[1].name = "index.html"
    /\ c.data = EmptyDict

\* the request carries index.html and footer.html, and names footer.html as
\* the footer
TwoParts(c) ==
    /\ Len(c.files) = 2
    /\ c.files[1].name = "index.html"
    /\ c.files[2].name = "footer.html"
    /\ c.data = [footer |-> "footer.html"]

\* generate_pdf was called with the arguments the state holds
OwnGeneratePdfCall == route \in {"none", "direct"} /\ Len(calls) = 1

AskedKind(k) == asked[k].q.kind

\* the k-th call out was answered without an error
AskedOk(k) == asked[k].a.outcome = "ok"

\* where in the overlay pass a pikepdf call is made: the main page (0 outside
\* the loop) and the step on that page
OverlayStep(k) ==
    LET site == asked[k].q.input[1]
        page == asked[k].q.input[2]
    IN CASE site = "main_open" -> 0
         [] site = "append" -> 4 * page + 1
         [] site = "footer_open" -> 4 * page + 2
         [] site = "add_overlay" -> 4 * page + 3
         [] OTHER -> 4 * (MaxPages + 2)

\* C13: in the multi-pass flow the calls out come in phases: the first-pass
\* render is the first call and has returned a document before the page
\* count, the page count has returned N before any footer-generation call,
\* and all N footer-generation calls have returned, footer k stored at
\* index k, before the overlay pass makes its first pikepdf call; the overlay
\* pass then takes the main pages one at a time in increasing index (append,
\* then open the footer, then overlay), and the pages of the result are the
\* main document's pages in the main document's order.
C13_PhaseOrder ==
    route = "multipass" =>
        LET N == IF total_pages = None THEN 0 ELSE total_pages[1]
        IN /\ \A k \in 1..Len(asked) :
                /\ k = 1 => AskedKind(k) = "requests.post"
                /\ AskedKind(k) = "get_pdf_page_count" =>
                      k = 2 /\ AskedOk(1) /\ first_pass_pdf # None
                /\ (AskedKind(k) = "requests.post" /\ k > 1) =>
                      /\ k \in 3..(N + 2)
                      /\ AskedKind(2) = "get_pdf_page_count" /\ AskedOk(2)
                      /\ \A j \in 3..(k - 1) : AskedOk(j)
                      /\ Len(footer_calls) >= k - 2
                      /\ footer_calls[k - 2].current_page = k - 2
                /\ AskedKind(k) = "pikepdf" =>
                      /\ k > N + 2
                      /\ AskedOk(1) /\ AskedOk(2)
                      /\ \A j \in 3..(N + 2) :
                            AskedKind(j) = "requests.post" /\ AskedOk(j)
                      /\ Len(footer_pdfs) = N
                      /\ asked[k].q.input[4] = footer_pdfs
                      /\ \A j \in (N + 3)..(k - 1) :
                            OverlayStep(j) < OverlayStep(k)
           /\ \A k \in 1..Len(footer_pdfs) :
                 \A p \in 1..Len(footer_pdfs[k].pages) :
                    footer_pdfs[k].pages[p].content.footer =
                       Some(<<"footer", Some(k), Some(N)>>)
           /\ \A k \in 1..Len(result_pdf) :
                 /\ k <= Len(main_pdf_pages)
                 /\ result_pdf[k].content = main_pdf_pages[k].content
           /\ pc \in {"append", "save"} => Len(result_pdf) = i

C13_Witness ==
    /\ route = "multipass"
    /\ pc = "done"
    /\ total_pages = Some(2)
    /\ Len(asked) = 12
    /\ \A k \in 1..Len(asked) : AskedOk(k)
    /\ Len(result[1].pages) = 2

\* the overlay pass has made a pikepdf call
OverlayEntered == \E k \in 1..Len(asked) : AskedKind(k) = "pikepdf"

\* the main pages for which the overlay pass made the pikepdf call `site`
PagesAt(site) ==
    {asked[k].q.input[2] :
       k \in {j \in 1..Len(asked) :
                AskedKind(j) = "pikepdf" /\ asked[j].q.input[1] = site}}

\* the smaller of the main page count and the footer count
MinCount == IF Len(main_pdf_pages) < Len(footer_pdfs)
            THEN Len(main_pdf_pages) ELSE Len(footer_pdfs)

\* C14: _overlay_footer_pdfs_on_main_pdf given a main document of M pages
\* and F footer documents opens a footer only for the first min(M, F) pages
\* and overlays footer i on page i only; a pass that runs to its end has
\* handled exactly those pages, left the pages beyond F without overlay,
\* touched no footer beyond M, and made no overlay from a footer document
\* without pages; the function returns a document of M pages and, when no
\* pikepdf call fails, logs nothing, M = F or not.
C14_DivergentCounts ==
    OverlayEntered =>
        /\ PagesAt("footer_open") \subseteq 1..MinCount
        /\ PagesAt("add_overlay") \subseteq
              {p \in PagesAt("footer_open") : Len(footer_pdfs[p].pages) > 0}
        /\ PagesAt("append") \subseteq 1..Len(main_pdf_pages)
        /\ \A p \in 1..Len(result_pdf) :
              \/ result_pdf[p].overlays = <<>>
              \/ /\ p \in PagesAt("add_overlay")
                 /\ result_pdf[p].overlays = <<footer_pdfs[p].pages[1].content>>
        /\ pc # "raised"
        /\ pc = "done" => Len(result[1].pages) = Len(main_pdf_pages)
        /\ (pc = "done" /\ \A k \in 1..Len(asked) : AskedOk(k)) =>
              /\ log = <<>>
              /\ thrown = {}
              /\ result = Some(SavedPdf(result_pdf))
              /\ PagesAt("footer_open") = 1..MinCount
              /\ \A p \in 1..Len(result_pdf) :
                    result_pdf[p].overlays =
                       IF p <= MinCount /\ Len(footer_pdfs[p].pages) > 0
                       THEN <<footer_pdfs[p].pages[1].content>> ELSE <<>>

C14_Witness ==
    /\ route = "none"
    /\ pc = "done"
    /\ OverlayEntered
    /\ Len(main_pdf_pages) = 3
    /\ Len(footer_pdfs) = 2
    /\ Len(footer_pdfs[1].pages) = 0
    /\ \A k \in 1..Len(asked) : AskedOk(k)
    /\ result[1].pages[1].overlays = <<>>
    /\ result[1].pages[2].overlays # <<>>
    /\ result[1].pages[3].overlays = <<>>

C14_WitnessMoreFooters ==
    /\ route = "none"
    /\ pc = "done"
    /\ OverlayEntered
    /\ Len(main_pdf_pages) = 1
    /\ Len(footer_pdfs) = 3
    /\ result = Some(SavedPdf(result_pdf))
    /\ PagesAt("footer_open") = {1}

\* C15: the main-document handle is open only inside the overlay pass and at
\* most one footer handle is open at any moment, that of the page being
\* overlaid; when _overlay_footer_pdfs_on_main_pdf has returned (normally,
\* after per-page overlay failures, or by the whole-pass fallback) no main
\* and no footer handle is open.
C15_HandlesScoped ==
    /\ Cardinality(footer_pdf_open) <= 1
    /\ footer_pdf_open # {} =>
          /\ pc = "overlay_page_content"
          /\ footer_pdf_open = {i + 1}
          /\ main_pdf_open
    /\ main_pdf_open =>
          pc \in {"append", "footer_open", "overlay_page_content", "save"}
    /\ pc \in {"done", "raised"} => (~main_pdf_open /\ footer_pdf_open = {})

C15_Witness ==
    /\ pc = "done"
    /\ ~main_pdf_open
    /\ footer_pdf_open = {}
    /\ [site |-> "add_overlay", page |-> 1] \in thrown
    /\ [site |-> "save", page |-> 0] \in thrown
    /\ Cardinality(PagesAt("footer_open")) = 3

\* the caller's templateArgs has no reportName, or one without
\* 'statement_report' in it
NoStatementReportName ==
    \/ args0 = None
    \/ "reportName" \notin DOMAIN args0[1]
    \/ ~Contains(args0[1]["reportName"], "statement_report")

\* C16: create_report_from_template passes templateArgs['reportName'] ('' when
\* there is none) to _finalize_pdf as the template name, and the route is
\* decided on it; a request whose reportName is absent or lacks
\* 'statement_report' never enters create_chunk_report or the multi-pass
\* flow, whatever groupedInvoices and generate_page_number are: once the
\* template has rendered it makes one generate_pdf call with index.html
\* alone and returns that call's bytes.
C16_AdHocRoutesOnReportName ==
    /\ pc \notin {"create_report_from_template", "raised"} =>
          template_name = report_name(args0)
    /\ route # "none" =>
          route = Route(report_name(args0), args0, generate_page_number)
    /\ NoStatementReportName =>
          /\ route \in {"none", "direct"}
          /\ chunk_calls = <<>>
          /\ footer_calls = <<>>
          /\ first_pass_pdf = None
          /\ result_pdf = <<>>
          /\ Len(calls) <= 1
          /\ \A k \in 1..Len(calls) :
                calls[k].fn = "generate_pdf" /\ OnePart(calls[k])
          /\ pc = "done" =>
                /\ Len(calls) = 1
                /\ result[1].producer = "gotenberg"
                /\ \A p \in 1..Len(result[1].pages) :
                      result[1].pages[p].content.footer = None

C16_Witness ==
    /\ args0 = Some([groupedInvoices |-> <<"g1", "g2">>])
    /\ generate_page_number
    /\ pc = "done"
    /\ route = "direct"
    /\ Len(calls) = 1

\* C17: with template_args = None (and with a None template name) routing
\* never selects the chunk route, and whatever route is selected, the
\* multi-pass flow with N >= 1 pages included, the request does not end
\* with an error raised for the missing mapping.
C17_NoneArgsComplete ==
    args0 = None =>
        /\ route # "chunk"
        /\ (template_name = None /\ route # "none") => route = "direct"
        /\ raised # Some("AttributeError")

RECURSIVE Joined(_)
\* ','.join(pieces), for a non-empty list of pieces
Joined(pieces) ==
    IF Len(pieces) = 1 THEN pieces[1]
    ELSE pieces[1] \o <<",">> \o Joined(Tail(pieces))

\* the send attempts that were answered with a response
Sent == SelectSeq(send_attempts, LAMBDA a : a.outcome = "ok")

\* the send attempts that failed
NotSent == SelectSeq(send_attempts, LAMBDA a : a.outcome # "ok")

\* C18: GCNotify.send makes one send attempt for each piece of the
\* recipients string between commas, in the string's order, whether earlier
\* attempts failed or not; no failed attempt raises out of send; the
\* response list holds, in recipient order, one entry (the response's id and
\* the recipient) for each attempt that succeeded and none for one that
\* failed, which is logged as an error instead.
C18_OneAttemptPerRecipient ==
    /\ send_pc # "raised"
    /\ \A k \in 1..Len(send_attempts) :
          ~Contains(send_attempts[k].email_address, ",")
    /\ send_attempts # <<>> =>
          LET made == Joined([k \in 1..Len(send_attempts) |->
                                send_attempts[k].email_address])
          IN /\ Len(made) <= Len(recipients)
             /\ made = SubSeq(recipients, 1, Len(made))
             /\ send_pc = "returned" => made = recipients
    /\ send_pc = "returned" => send_attempts # <<>>
    /\ Len(response_list) = Len(Sent)
    /\ \A k \in 1..Len(response_list) :
          /\ response_list[k].recipient = Sent[k].email_address
          /\ response_list[k].response_id = Sent[k].id
    /\ Len(send_log) = Len(NotSent)
    /\ \A k \in 1..Len(send_log) :
          send_log[k].recipient = NotSent[k].email_address

C18_Witness ==
    /\ send_pc = "returned"
    /\ recipients = <<"a@gov.bc.ca", ",", "b@gov.bc.ca", ",">>
    /\ Len(send_attempts) = 3
    /\ send_attempts[1].outcome = "Exception"
    /\ send_attempts[2].outcome = "ok"
    /\ send_attempts[3].outcome = "HTTPError"
    /\ Len(response_list) = 1
    /\ response_list[1].recipient = <<"b@gov.bc.ca">>

====
